---- MODULE Spec2Model ----
(***************************************************************************)
(* BlockItemContainer of docx/blkcntnr.py: appending paragraphs and        *)
(* tables, allocating numbering identifiers (generate_numId), and the      *)
(* read views paragraphs / tables / lists.                                 *)
(*                                                                         *)
(* The document tree holds several block-item containers (a body and a     *)
(* table cell); each container's content is an ordered sequence of block   *)
(* items.  A paragraph handle is the position of the paragraph's element   *)
(* in its container: the code never removes or moves an element, so the    *)
(* position identifies the element for its whole life.                     *)
(*                                                                         *)
(* w:numId/@w:val is written by this library as the decimal form of the    *)
(* integer, which is also what '%s' % numId produces, so the attribute is  *)
(* held as that integer.  An absent numPr is the empty sequence, a         *)
(* present one the one-element sequence <<numId>>.                         *)
(***************************************************************************)
EXTENDS Integers, Sequences, FiniteSets

VARIABLES
    blocks,   \* [Containers -> Seq(item)]: element children of each container
    pc,       \* "idle", or "sampling" inside the loop of generate_numId
    frame,    \* the call that entered generate_numId (direct, or via add_list)
    numId,    \* local variable numId of generate_numId: <<>> or <<candidate>>
    ret,      \* the operation that returned last, with its arguments and
              \* result; "call" while generate_numId is in progress
    held,     \* a ListParagraph the caller keeps a reference to, or NoList
    pending,  \* history: id returned by generate_numId and not yet attached
    seen      \* history: ids present before, or returned in, the current run

vars == <<blocks, pc, frame, numId, ret, held, pending, seen>>

----------------------------------------------------------------------------
\* Bounds of the model.

\* Most block items in the whole document tree, in each specification.
MaxBlocks == 2
MaxListBlocks == 3
MaxAppendBlocks == 3

\* Upper end of the sampling range; stands for 999999 of random.randint.
RangeMax == 1

Containers == {"body", "cell"}
Texts == {"", "hello"}
Styles == {"None", "styleX"}
Levels == {0, 2}
ListIds == {1, 2}
TableRows == {0, 3}
TableCols == {4}
TableWidths == {12}

----------------------------------------------------------------------------
\* Elements and the oxml primitives the container calls.

\* A new, empty w:p element.
new_p == [kind |-> "p", numPr |-> <<>>, runs |-> <<>>, style |-> "None"]

\* CT_Tbl.new_tbl(rows, cols, width)
new_tbl(rows, cols, width) ==
    [kind |-> "tbl", rows |-> rows, cols |-> cols, width |-> width]

\* self._element.add_p(): a new paragraph inserted as the last block item;
\* the result is the children afterwards and the place of the new element.
add_p(seq) == [seq |-> Append(seq, new_p), at |-> Len(seq) + 1]

\* self._element._insert_tbl(tbl): tbl inserted as the last block item.
_insert_tbl(seq, tbl) == [seq |-> Append(seq, tbl), at |-> Len(seq) + 1]

\* paragraph.add_run(text)
add_run(p, text) == [p EXCEPT !.runs = Append(@, text)]

\* paragraph.style = style
set_style(p, style) == [p EXCEPT !.style = style]

\* Positions of the elements of one kind among a container's children.
RECURSIVE Positions(_, _, _)
Positions(seq, kind, i) ==
    IF i > Len(seq) THEN <<>>
    ELSE IF seq[i].kind = kind THEN <<i>> \o Positions(seq, kind, i + 1)
    ELSE Positions(seq, kind, i + 1)

\* self._element.p_lst
p_lst(c) == Positions(blocks[c], "p", 1)

\* self._element.tbl_lst
tbl_lst(c) == Positions(blocks[c], "tbl", 1)

RECURSIVE SumLen(_, _)
SumLen(b, cs) ==
    IF cs = {} THEN 0
    ELSE LET c == CHOOSE x \in cs : TRUE IN Len(b[c]) + SumLen(b, cs \ {c})

\* Number of block items in the document tree.
TotalBlocks == SumLen(blocks, Containers)

\* The numbering identifiers carried by paragraphs anywhere in the tree b.
UsedIds(b) ==
    {b[x[1]][x[2]].numPr[1] : x \in
        {y \in UNION {{d} \X (1..Len(b[d])) : d \in Containers} :
            /\ b[y[1]][y[2]].kind = "p"
            /\ b[y[1]][y[2]].numPr # <<>>}}

----------------------------------------------------------------------------
\* generate_numId

\* random.randint(0, 999999): both ends included.
\* (randint_wide: an upper end one too high.)
randint_wide == 0..(RangeMax + 1)
randint == 0..RangeMax

\* self._element.xpath("//w:numId[@w:val='%s']" % numId): the path starts
\* with //, so it selects from the root of the tree whatever element it is
\* evaluated on; the result is the w:numId elements of the whole tree,
\* named here by the paragraph that holds each.
\* (xpath_relative: the same path written .//, which selects below the
\* container's own element only.)
xpath_relative(c, n) ==
    {x \in {c} \X (1..Len(blocks[c])) :
        /\ blocks[x[1]][x[2]].kind = "p"
        /\ blocks[x[1]][x[2]].numPr = <<n>>}
xpath(c, n) ==
    {x \in UNION {{d} \X (1..Len(blocks[d])) : d \in Containers} :
        /\ blocks[x[1]][x[2]].kind = "p"
        /\ blocks[x[1]][x[2]].numPr = <<n>>}

\* not len(self._element.xpath(...)): the loop's exit test.
\* (unchecked: the test left out.)
unchecked(c, n) == TRUE
unique(c, n) == Cardinality(xpath(c, n)) = 0

\* The calling frame of generate_numId when no call is in progress.
NoFrame == [op |-> "none"]

\* No list group kept.
NoList == [parent |-> "none"]

\* ListParagraph(parent, numId, style, level): the constructor stores its
\* arguments and touches nothing else; lists builds one per identifier on
\* every read, so constructing a group cannot add content.
ListParagraph(parent, n, style, level) ==
    [parent |-> parent, numId |-> n, style |-> style, level |-> level]

\* What a return of generate_numId leaves in the tree: it writes nothing.
\* (generate_numId_reserving: the id is marked by a paragraph carrying it.)
generate_numId_reserving(c, n) ==
    [blocks EXCEPT ![c] = Append(@, [new_p EXCEPT !.numPr = <<n>>])]
generate_numId_writes(c, n) == blocks

\* History kept on a return of n: a run of calls is one in which every
\* returned id was attached to a paragraph before the next call and no id
\* was taken off a paragraph; seen holds the ids present before the run's
\* first call and the ids the run returned.
FirstOfRun == seen = {} \/ pending # <<>>
SeenBefore == IF FirstOfRun THEN UsedIds(blocks) ELSE seen

\* History kept when the tree changes from blocks to b.
Attached(b) ==
    /\ pending' = IF pending # <<>> /\ pending[1] \in UsedIds(b) THEN <<>>
                  ELSE pending
    /\ seen' = IF UsedIds(blocks) \subseteq UsedIds(b) THEN seen ELSE {}

\* generate_numId(self), entered directly.
generate_numId(c) ==
    /\ pc = "idle"
    /\ pc' = "sampling"
    /\ frame' = [op |-> "generate_numId", c |-> c, style |-> "None",
                 level |-> 0, before |-> Len(p_lst(c))]
    /\ ret' = [op |-> "call"]
    /\ UNCHANGED <<blocks, numId, held, pending, seen>>

\* add_list(self, style, level), up to its call of self.generate_numId().
add_list(c, style, level) ==
    /\ pc = "idle"
    /\ pc' = "sampling"
    /\ frame' = [op |-> "add_list", c |-> c, style |-> style,
                 level |-> level, before |-> Len(p_lst(c))]
    /\ ret' = [op |-> "call"]
    /\ UNCHANGED <<blocks, numId, held, pending, seen>>

\* One turn of the while True loop: sample, test, return or go round again.
\* A return into add_list goes on to construct and return the ListParagraph.
generate_numId_loop ==
    /\ pc = "sampling"
    /\ \E n \in randint :
        IF unique(frame.c, n)
        THEN /\ pc' = "idle"
             /\ frame' = NoFrame
             /\ numId' = <<>>
             /\ blocks' = generate_numId_writes(frame.c, n)
             /\ ret' = [op |-> frame.op, c |-> frame.c,
                        val |-> IF frame.op = "add_list"
                                THEN ListParagraph(frame.c, n, frame.style,
                                                   frame.level)
                                ELSE n,
                        numId |-> n,
                        before |-> frame.before,
                        first |-> FirstOfRun,
                        fresh |-> n \notin SeenBefore,
                        repeat |-> pending = <<n>>]
             /\ held' = held
             /\ pending' = <<n>>
             /\ seen' = SeenBefore \cup {n}
        ELSE /\ numId' = <<n>>
             /\ UNCHANGED <<blocks, pc, frame, ret, held, pending, seen>>

----------------------------------------------------------------------------
\* The content appender.

\* _add_paragraph(self): Paragraph(self._element.add_p(), self).
\* (_add_paragraph_first: the new element put before the others.)
_add_paragraph_first(seq) == [seq |-> <<new_p>> \o seq, at |-> 1]
_add_paragraph(seq) == add_p(seq)

\* The body of add_paragraph(self, text, style) on the children seq:
\* the children afterwards and the place of the returned paragraph.
\* (add_paragraph_nested: the style test nested under the text test.)
add_paragraph_nested(seq, text, style) ==
    LET r == _add_paragraph(seq)
        p0 == r.seq[r.at]
        p1 == IF text # "" THEN add_run(p0, text) ELSE p0
        p2 == IF text # "" /\ style # "None" THEN set_style(p1, style) ELSE p1
    IN  [seq |-> [r.seq EXCEPT ![r.at] = p2], at |-> r.at]
add_paragraph_body(seq, text, style) ==
    LET r == _add_paragraph(seq)
        p0 == r.seq[r.at]
        p1 == IF text # "" THEN add_run(p0, text) ELSE p0
        p2 == IF style # "None" THEN set_style(p1, style) ELSE p1
    IN  [seq |-> [r.seq EXCEPT ![r.at] = p2], at |-> r.at]

\* add_paragraph(self, text='', style=None)
add_paragraph(c, text, style) ==
    /\ pc = "idle"
    /\ LET r == add_paragraph_body(blocks[c], text, style)
       IN  /\ blocks' = [blocks EXCEPT ![c] = r.seq]
           /\ ret' = [op |-> "add_paragraph", c |-> c, val |-> r.at,
                      text |-> text, style |-> style]
           /\ Attached([blocks EXCEPT ![c] = r.seq])
    /\ UNCHANGED <<pc, frame, numId, held>>

\* add_table(self, rows, cols, width)
add_table(c, rows, cols, width) ==
    /\ pc = "idle"
    /\ LET r == _insert_tbl(blocks[c], new_tbl(rows, cols, width))
       IN  /\ blocks' = [blocks EXCEPT ![c] = r.seq]
           /\ ret' = [op |-> "add_table", c |-> c, val |-> r.at,
                      rows |-> rows, cols |-> cols, width |-> width]
           /\ Attached([blocks EXCEPT ![c] = r.seq])
    /\ UNCHANGED <<pc, frame, numId, held>>

----------------------------------------------------------------------------
\* The read views.

\* paragraphs: [Paragraph(p, self) for p in self._element.p_lst]
\* (paragraphs_but_last: the last paragraph left out.)
paragraphs_but_last(c) ==
    IF Len(p_lst(c)) = 0 THEN <<>> ELSE SubSeq(p_lst(c), 1, Len(p_lst(c)) - 1)
paragraphs(c) == p_lst(c)

\* tables: [Table(tbl, self) for tbl in self._element.tbl_lst]
tables(c) == tbl_lst(c)

\* paragraph.numId of the paragraph at place i of container c.
HasNumId(c, i) == blocks[c][i].numPr # <<>>
NumIdOf(c, i) == blocks[c][i].numPr[1]

\* nums of lists: the identifiers of the paragraphs that have one, in
\* document order, repeats included.
\* (nums_unfiltered: the None test left out, None read as 0.)
nums_unfiltered(c) ==
    [k \in 1..Len(paragraphs(c)) |->
        IF HasNumId(c, paragraphs(c)[k]) THEN NumIdOf(c, paragraphs(c)[k])
        ELSE 0]
nums(c) ==
    LET ps == SelectSeq(paragraphs(c), LAMBDA i : HasNumId(c, i))
    IN  [k \in 1..Len(ps) |-> NumIdOf(c, ps[k])]

\* set(nums)
set(seq) == {seq[k] : k \in 1..Len(seq)}

\* The orders in which iterating a set can give its elements: the language
\* fixes none.
Orders(S) ==
    {f \in [1..Cardinality(S) -> S] :
        \A i, j \in 1..Cardinality(S) : i # j => f[i] # f[j]}

\* The read of the property paragraphs.
read_paragraphs(c) ==
    /\ pc = "idle"
    /\ ret' = [op |-> "paragraphs", c |-> c, val |-> paragraphs(c)]
    /\ UNCHANGED <<blocks, pc, frame, numId, held, pending, seen>>

\* The read of the property tables.
read_tables(c) ==
    /\ pc = "idle"
    /\ ret' = [op |-> "tables", c |-> c, val |-> tables(c)]
    /\ UNCHANGED <<blocks, pc, frame, numId, held, pending, seen>>

\* The read of the property lists:
\* [ListParagraph(self, numId) for numId in set(nums)]
lists(c) ==
    /\ pc = "idle"
    /\ \E order \in Orders(set(nums(c))) :
        ret' = [op |-> "lists", c |-> c,
                val |-> [k \in 1..Len(order) |->
                            ListParagraph(c, order[k], "None", 0)]]
    /\ UNCHANGED <<blocks, pc, frame, numId, held, pending, seen>>

----------------------------------------------------------------------------
\* List groups and the paragraph's numbering identifier.

\* ListParagraph.items of the group g: the container's paragraphs, as they
\* are when asked, whose identifier is the group's.
items(g) ==
    SelectSeq(paragraphs(g.parent),
              LAMBDA i : HasNumId(g.parent, i) /\ NumIdOf(g.parent, i) = g.numId)

\* The caller keeps a group it was just handed: the one add_list returned,
\* or the i-th of those lists returned.  n0 records, for later comparison,
\* how many members the group had then.
keep_group(i) ==
    /\ pc = "idle"
    /\ ret.op \in {"lists", "add_list"}
    /\ i \in 1..(IF ret.op = "lists" THEN Len(ret.val) ELSE 1)
    /\ LET g == IF ret.op = "lists" THEN ret.val[i] ELSE ret.val
       IN  held' = [group |-> g, n0 |-> Len(items(g))]
    /\ ret' = [op |-> "keep_group"]
    /\ UNCHANGED <<blocks, pc, frame, numId, pending, seen>>

\* The read of items on the group the caller keeps.
read_items ==
    /\ pc = "idle"
    /\ held.group # NoList
    /\ ret' = [op |-> "items", c |-> held.group.parent,
               val |-> items(held.group)]
    /\ UNCHANGED <<blocks, pc, frame, numId, held, pending, seen>>

\* paragraph.numId = n on the paragraph at place i of container c.
set_numId(c, i, n) ==
    /\ pc = "idle"
    /\ i \in 1..Len(blocks[c])
    /\ blocks[c][i].kind = "p"
    /\ LET b == [blocks EXCEPT ![c][i].numPr = <<n>>]
       IN  /\ blocks' = b
           /\ Attached(b)
    /\ ret' = [op |-> "set_numId", c |-> c, val |-> i]
    /\ UNCHANGED <<pc, frame, numId, held>>

\* ListParagraph.add_item(text) on the group the caller keeps: a paragraph
\* added through the container's add_paragraph, then given the group's
\* identifier.
add_item(text) ==
    /\ pc = "idle"
    /\ held.group # NoList
    /\ LET g == held.group
           r == add_paragraph_body(blocks[g.parent], text, g.style)
           b == [blocks EXCEPT ![g.parent] =
                    [r.seq EXCEPT ![r.at].numPr = <<g.numId>>]]
       IN  /\ blocks' = b
           /\ Attached(b)
           /\ ret' = [op |-> "add_item", c |-> g.parent, val |-> r.at]
    /\ UNCHANGED <<pc, frame, numId, held>>

----------------------------------------------------------------------------
\* Specifications.

\* Newly made containers: no content, no call in progress.
Init ==
    /\ blocks = [c \in Containers |-> <<>>]
    /\ pc = "idle"
    /\ frame = NoFrame
    /\ numId = <<>>
    /\ ret = [op |-> "none"]
    /\ held = [group |-> NoList, n0 |-> 0]
    /\ pending = <<>>
    /\ seen = {}

\* The numbering allocator and its callers: ids are attached by add_item,
\* or by setting the id of a paragraph that has none.
Next ==
    \/ \E c \in Containers :
          TotalBlocks < MaxBlocks /\ add_paragraph(c, "", "None")
    \/ \E c \in Containers : generate_numId(c)
    \/ \E c \in Containers, level \in Levels : add_list(c, "None", level)
    \/ generate_numId_loop
    \/ keep_group(1)
    \/ TotalBlocks < MaxBlocks /\ add_item("")
    \/ \E c \in Containers, i \in 1..MaxBlocks, n \in randint :
          /\ i <= Len(blocks[c])
          /\ blocks[c][i].numPr = <<>>
          /\ set_numId(c, i, n)

Spec == Init /\ [][Next]_vars

\* The list grouper: paragraphs and tables interleaved, ids set and changed
\* at will, groups read, kept, queried and added to.
NextLists ==
    \/ \E c \in Containers :
          TotalBlocks < MaxListBlocks /\ add_paragraph(c, "", "None")
    \/ \E c \in Containers, rows \in {3}, cols \in TableCols,
          width \in TableWidths :
          TotalBlocks < MaxListBlocks /\ add_table(c, rows, cols, width)
    \/ \E c \in Containers, i \in 1..MaxListBlocks, n \in ListIds :
          set_numId(c, i, n)
    \/ \E c \in Containers : lists(c)
    \/ \E c \in Containers : read_paragraphs(c)
    \/ \E i \in 1..Cardinality(ListIds) : keep_group(i)
    \/ read_items
    \/ TotalBlocks < MaxListBlocks /\ add_item("")

SpecLists == Init /\ [][NextLists]_vars

\* The content appender with every text and style.
NextAppend ==
    \/ \E c \in Containers, text \in Texts, style \in Styles :
          TotalBlocks < MaxAppendBlocks /\ add_paragraph(c, text, style)
    \/ \E c \in Containers, rows \in TableRows, cols \in TableCols,
          width \in TableWidths :
          TotalBlocks < MaxAppendBlocks /\ add_table(c, rows, cols, width)
    \/ \E c \in Containers : read_paragraphs(c)
    \/ \E c \in Containers : read_tables(c)

SpecAppend == Init /\ [][NextAppend]_vars

----------------------------------------------------------------------------
\* Properties.

\* The places of container c's children that are paragraphs carrying id n.
PlacesWithId(c, n) ==
    {i \in 1..Len(blocks[c]) :
        blocks[c][i].kind = "p" /\ blocks[c][i].numPr = <<n>>}

\* The places of container c's children that are paragraphs.
ParagraphPlaces(c) == {i \in 1..Len(blocks[c]) : blocks[c][i].kind = "p"}

\* seq lists exactly the members of S, in increasing order.
Ascending(seq, S) ==
    /\ Len(seq) = Cardinality(S)
    /\ {seq[k] : k \in 1..Len(seq)} = S
    /\ \A j, k \in 1..Len(seq) : j < k => seq[j] < seq[k]

\* C1: a step of add_paragraph or add_table on a container leaves its
\* earlier block items as they were and in place, adds exactly one item,
\* of the kind asked for, at the tail, returns that item, and leaves the
\* other containers alone.
C1_AppendAtTail ==
    [][ret'.op \in {"add_paragraph", "add_table"} =>
        LET c == ret'.c
            n == Len(blocks[c])
        IN  /\ Len(blocks'[c]) = n + 1
            /\ SubSeq(blocks'[c], 1, n) = blocks[c]
            /\ ret'.val = n + 1
            /\ blocks'[c][n + 1].kind =
                   (IF ret'.op = "add_paragraph" THEN "p" ELSE "tbl")
            /\ \A d \in Containers \ {c} : blocks'[d] = blocks[d]]_vars

\* C1 witness: a table was appended after a paragraph and a table.
C1_Witness ==
    /\ ret.op = "add_table"
    /\ ret.val = 3
    /\ blocks[ret.c][1].kind = "p"
    /\ blocks[ret.c][2].kind = "tbl"

\* C7: the paragraph add_paragraph(text, style) returned has one run
\* holding text when text is non-empty and no run otherwise, and has style
\* as its style when one was given and none otherwise.
C7_TextAndStyle ==
    ret.op = "add_paragraph" =>
        LET p == blocks[ret.c][ret.val]
        IN  /\ p.kind = "p"
            /\ p.runs = (IF ret.text # "" THEN <<ret.text>> ELSE <<>>)
            /\ p.style = ret.style

\* C7 witness: a style given with no text.
C7_Witness ==
    /\ ret.op = "add_paragraph"
    /\ ret.text = ""
    /\ ret.style = "styleX"
    /\ blocks[ret.c][ret.val].runs = <<>>

\* C2: the id generate_numId returns, called directly or by add_list, is on
\* no paragraph of any container of the tree when it returns.
C2_UnusedInWholeTree ==
    ret.op \in {"generate_numId", "add_list"} =>
        \A c \in Containers : PlacesWithId(c, ret.numId) = {}

\* C2 witness: a direct call returned on a container that holds no
\* numbered paragraph while another container holds one.
C2_Witness ==
    /\ ret.op = "generate_numId"
    /\ \A n \in 0..RangeMax : PlacesWithId(ret.c, n) = {}
    /\ \E d \in Containers \ {ret.c}, n \in 0..RangeMax :
          PlacesWithId(d, n) # {}

\* C3: in a run of calls, each id attached to a paragraph before the next
\* call, the id a call returns differs from every id returned earlier in
\* the run and from every id present before the run's first call.
C3_DistinctInRun ==
    ret.op \in {"generate_numId", "add_list"} => ret.fresh

\* C3 witness: the return of a later call of a run, an earlier id of the
\* run having been attached to a paragraph before it.
C3_Witness ==
    /\ ret.op \in {"generate_numId", "add_list"}
    /\ ~ret.first
    /\ Cardinality(seen) >= 2

\* C4: add_list makes the container's paragraphs one longer, the new last
\* paragraph carrying the id of the group returned.
C4_AddListAddsParagraph ==
    ret.op = "add_list" =>
        /\ Len(paragraphs(ret.c)) = ret.before + 1
        /\ blocks[ret.c][paragraphs(ret.c)[Len(paragraphs(ret.c))]].numPr
               = <<ret.val.numId>>

\* C9: no step of a direct generate_numId call, its entry, a turn of its
\* loop or its return, changes any container's block items or any
\* paragraph's id.
C9_NoSideEffect ==
    [][(frame.op = "generate_numId" \/ frame'.op = "generate_numId") =>
        blocks' = blocks]_vars

\* C9 witness: a call returned the id the call before it had returned,
\* that id not having been attached in between.
C9_Witness ==
    /\ ret.op = "generate_numId"
    /\ ret.repeat

\* C10: while every integer of the sampling range is on some paragraph, a
\* call in progress stays in progress: nothing is returned, to the caller
\* of generate_numId or of add_list, and nothing else changes.
C10_NeverReturns ==
    [][(pc = "sampling" /\ (0..RangeMax) \subseteq UsedIds(blocks)) =>
        /\ pc' = "sampling"
        /\ frame' = frame
        /\ ret' = ret
        /\ blocks' = blocks]_vars

\* C10 witness: add_list is in its call of generate_numId, the range is
\* used up and a candidate has been sampled and rejected.
C10_Witness ==
    /\ pc = "sampling"
    /\ frame.op = "add_list"
    /\ (0..RangeMax) \subseteq UsedIds(blocks)
    /\ numId # <<>>

\* The ids on the paragraphs of container c.
IdsIn(c) ==
    {blocks[c][i].numPr[1] :
        i \in {j \in ParagraphPlaces(c) : blocks[c][j].numPr # <<>>}}

\* C5: lists returns one group per id found on the container's paragraphs:
\* none for a paragraph without id, one only for an id on several
\* paragraphs, none for an id found in another container only; each group's
\* members are the container's paragraphs with the group's id; paragraphs
\* returns every paragraph of the container, in document order.
C5_Grouping ==
    /\ ret.op = "lists" =>
          /\ Len(ret.val) = Cardinality(IdsIn(ret.c))
          /\ {ret.val[k].numId : k \in 1..Len(ret.val)} = IdsIn(ret.c)
          /\ \A k \in 1..Len(ret.val) :
                /\ ret.val[k].parent = ret.c
                /\ Ascending(items(ret.val[k]),
                             PlacesWithId(ret.c, ret.val[k].numId))
    /\ ret.op = "paragraphs" => Ascending(ret.val, ParagraphPlaces(ret.c))

\* C5 witness: lists read on a container with a paragraph without id and
\* two paragraphs with the same id: one group, of two members.
C5_Witness ==
    /\ ret.op = "lists"
    /\ Len(ret.val) = 1
    /\ \E i \in ParagraphPlaces(ret.c) : blocks[ret.c][i].numPr = <<>>
    /\ Cardinality(PlacesWithId(ret.c, ret.val[1].numId)) = 2

\* The place of the first paragraph of container c that carries id n.
FirstPlace(c, n) ==
    CHOOSE i \in PlacesWithId(c, n) : \A j \in PlacesWithId(c, n) : i <= j

\* C6: lists returns the groups in document order: a group whose first
\* paragraph comes earlier in the container comes earlier in the result.
C6_DocumentOrder ==
    ret.op = "lists" =>
        \A j, k \in 1..Len(ret.val) :
            j < k => FirstPlace(ret.c, ret.val[j].numId)
                        < FirstPlace(ret.c, ret.val[k].numId)

====
